---- MODULE Spec2Model ----
(***************************************************************************)
(* Call dialogue orchestrator of src/app.py: the per-caller dictionaries   *)
(* conversation_contexts and call_states, the ResponseManager, and the     *)
(* Flask routes /voice, /process_voice, /detect_interruption and           *)
(* /test_interruption that read and write them.                            *)
(*                                                                         *)
(* Text is a sequence of one-character strings, so that `in`, len(),       *)
(* lower(), strip() and slicing are computed as Python computes them.      *)
(* Devanagari phrases of the source are transliterated to ASCII (TLA+      *)
(* strings are ASCII); the phrase lists keep the source's order.           *)
(* Confidence is kept in hundredths (0.3 is 30).  Time is a clock that     *)
(* ticks between requests (SpecClock).  In Spec each route is one atomic   *)
(* step; SpecOverlap serves /process_voice statement by statement on       *)
(* several threads, and SpecDelivery and SpecPair run                      *)
(* create_interruptible_response chunk by chunk.  Callers holds the one id *)
(* that every route can serve: the fixed id of /test_interruption, which   *)
(* /process_voice and /detect_interruption accept as From like any other;  *)
(* SpecPair has a second caller.  The fields response_start_time,          *)
(* quick_interruption_mode and conversation_flow of AdvancedCallState,     *)
(* which no route reads, are left out.                                     *)
(***************************************************************************)
EXTENDS Integers, Sequences, FiniteSets, TLC

(***************************************************************************)
(* Bounds of the model.                                                    *)
(***************************************************************************)
MaxContextLen == 4
MaxSilence == 3
MaxInterruptions == 1
MaxCapContextLen == 13

(***************************************************************************)
(* Program constants.                                                      *)
(***************************************************************************)
ConfidenceThreshold == 30
SilenceLimit == 2
MinPromptLen == 2
NewInputMinLen == 10
MaxResponseChars == 150
MaxMessages == 11
KeepRecent == 10
MinDetectedLen == 3
ChunkWords == 5
LongReplyLen == 151
MaxClock == 2
MaxDeliveries == 2
MaxDeliveryContextLen == 3
MaxPairContextLen == 5
MaxThreads == 2
MaxOverlapStartLen == 3

None == "None"
Callers == {"test_interruption"}
test_caller == "test_interruption"

(***************************************************************************)
(* State.                                                                  *)
(***************************************************************************)
VARIABLES
    conversation_contexts,  \* caller id -> list of turns
    call_states,            \* caller id -> AdvancedCallState
    active_responses,       \* response_manager.active_responses
    interrupted_responses,  \* response_manager.interrupted_responses
    client,                 \* TRUE when GROQ_API_KEY and the Groq client are set
    request,                \* the request served last
    response,               \* the body returned for it
    generator_calls,        \* the Reply Generator calls made while serving it
    log,                    \* the logger lines written while serving it
    entry_call_state,       \* call_states.get(caller_id) as that request found it
    now,                    \* the clock that datetime.now() and time.time() read
    deliveries,             \* the running calls of create_interruptible_response
    threads,                \* the /process_voice requests that Flask serves in steps
    overlap_start           \* the dicts as the first of those requests found them

vars == <<conversation_contexts, call_states, active_responses, interrupted_responses,
          client, request, response, generator_calls, log, entry_call_state, now,
          deliveries, threads, overlap_start>>

(***************************************************************************)
(* Phrase lists and fixed texts.                                           *)
(***************************************************************************)
strong_interrupts ==
    << <<"r","u","k","o">>,
       <<"r","u","k","i","y","e">>,
       <<"s","t","o","p">>,
       <<"w","a","i","t">>,
       <<"h","o","l","d"," ","o","n">>,
       <<"e","k"," ","m","i","n","u","t","e">>,
       <<"n","a","h","i","n"," ","n","a","h","i","n">>,
       <<"n","o"," ","n","o">>,
       <<"a","c","t","u","a","l","l","y">>,
       <<"l","e","k","i","n">>,
       <<"b","u","t">>,
       <<"s","u","n","i","y","e">>,
       <<"a","r","e"," ","h","a","a","n">>,
       <<"a","c","h","h","a"," ","s","u","n","i","y","e">>,
       <<"d","o","o","s","r","i"," ","b","a","a","t">> >>

question_interrupts ==
    << <<"k","y","a">>,
       <<"k","a","i","s","e">>,
       <<"k","a","b">>,
       <<"k","a","h","a","n">>,
       <<"k","a","u","n">>,
       <<"k","y","o","n">>,
       <<"w","h","a","t">>,
       <<"h","o","w">>,
       <<"w","h","e","n">>,
       <<"w","h","e","r","e">>,
       <<"w","h","o">>,
       <<"w","h","y">>,
       <<"b","a","t","a","o">>,
       <<"s","a","m","j","h","a","o">>,
       <<"e","x","p","l","a","i","n">>,
       <<"t","e","l","l"," ","m","e">> >>

topic_change ==
    << <<"d","o","o","s","r","a"," ","s","a","w","a","l">>,
       <<"a","n","o","t","h","e","r"," ","q","u","e","s","t","i","o","n">>,
       <<"n","e","w"," ","t","o","p","i","c">>,
       <<"a","l","a","g"," ","b","a","a","t">>,
       <<"d","i","f","f","e","r","e","n","t"," ","t","h","i","n","g">>,
       <<"n","a","y","i"," ","b","a","a","t">> >>

acknowledgement_words ==
    << <<"h","a","a","n">>,
       <<"t","h","e","e","k">>,
       <<"y","e","s">>,
       <<"o","k">>,
       <<"r","i","g","h","t">> >>

end_phrases ==
    << <<"d","h","a","n","y","a","v","a","a","d">>,
       <<"b","y","e">>,
       <<"k","h","a","t","m">>,
       <<"b","a","s">>,
       <<"h","o"," ","g","a","y","a">>,
       <<"r","a","k","h","t","a"," ","h","o","o","n">>,
       <<"c","h","a","l","t","a"," ","h","o","o","n">> >>

ultra_quick_prompts ==
    << <<"a","u","r","?">>,
       <<"j","i","?">>,
       <<"h","a","a","n","?">> >>

test_interruptions ==
    << <<"r","u","k","o",","," ","d","o","o","s","r","a"," ","s","a","w","a","l"," ","h","a","i">>,
       <<"k","y","a"," ","y","a","h"," ","s","a","h","i"," ","h","a","i","?">>,
       <<"l","e","k","i","n"," ","m","a","i","n"," ","k","u","c","h"," ","a","u","r"," ","p","o","o","c","h","n","a"," ","c","h","a","h","t","a"," ","h","o","o","n">>,
       <<"n","a","h","i","n"," ","n","a","h","i","n",","," ","y","a","h"," ","n","a","h","i","n">> >>

SystemPrompt == <<"a","a","p"," ","e","k"," ","t","e","z"," ","h","i","n","d","i"," ","A","I"," ","a","s","s","i","s","t","a","n","t"," ","h","a","i","n">>

GoAheadText == <<"j","i"," ","h","a","a","n",","," ","b","o","l","i","y","e",".">>

NewQuestionText == <<"j","i",","," ","n","a","y","a"," ","s","a","w","a","l"," ","p","o","o","c","h","i","y","e",".">>

ListeningText == <<"j","i",","," ","s","u","n"," ","r","a","h","a"," ","h","o","o","n",".">>

TechnicalProblemText == <<"t","a","k","n","i","k","i"," ","s","a","m","a","s","y","a"," ","h","a","i",".">>

SayItText == <<"j","i",","," ","k","a","h","i","y","e","?">>

FallbackText == <<"s","a","m","a","j","h"," ","g","a","y","a","."," ","k","u","c","h"," ","a","u","r","?">>

ConnectionProblemText == <<"c","o","n","n","e","c","t","i","o","n"," ","k","i"," ","s","a","m","a","s","y","a"," ","l","a","g"," ","r","a","h","i"," ","h","a","i",".">>

RepeatText == <<"p","h","i","r"," ","s","e"," ","b","o","l","i","y","e",".">>

ThanksText == <<"d","h","a","n","y","a","v","a","a","d","!">>

ClosingText == <<"d","h","a","n","y","a","v","a","a","d","!"," ","a","c","h","h","a"," ","d","i","n"," ","h","o",".">>

CallAgainText == <<"s","a","m","a","s","y","a"," ","h","a","i","."," ","d","o","b","a","r","a"," ","c","a","l","l"," ","k","a","r","e","i","n",".">>

WelcomeText == <<"n","a","m","a","s","t","e","!"," ","m","a","i","n"," ","t","u","r","a","n","t"," ","j","a","w","a","b"," ","d","e","t","a"," ","h","o","o","n","."," ","p","o","o","c","h","i","y","e",".">>

SpeakText == <<"b","o","l","i","y","e",".">>

SilentSpeech == << >>

GoodbyeSpeech == <<"D","h","a","n","y","a","v","a","a","d",","," ","B","y","e">>

StrongSpeech == <<"r","u","k","o",","," ","d","o","o","s","r","i"," ","b","a","a","t">>

TopicSpeech == <<"n","e","w"," ","t","o","p","i","c">>

QuestionSpeech == <<"k","y","a"," ","y","a","h"," ","s","a","h","i"," ","h","a","i","?">>

NewInputSpeech == <<" ","n","a","u","k","r","i"," ","n","a","h","i","n"," ","m","i","l"," ","r","a","h","i"," ">>

ShortSpeech == <<"a">>

ShortReply == <<" ","t","h","e","e","k"," ","h","a","i","."," ">>

BlankReply == <<" "," ">>

LongReply == [i \in 1..LongReplyLen |-> "x"]

Ellipsis == <<".", ".", ".">>

(***************************************************************************)
(* Python string operations on character sequences.                        *)
(***************************************************************************)
UpperLetters ==
    <<"A","B","C","D","E","F","G","H","I","J","K","L","M",
      "N","O","P","Q","R","S","T","U","V","W","X","Y","Z">>

LowerLetters ==
    <<"a","b","c","d","e","f","g","h","i","j","k","l","m",
      "n","o","p","q","r","s","t","u","v","w","x","y","z">>

LowerMap ==
    [ch \in {UpperLetters[i] : i \in 1..Len(UpperLetters)} |->
        LowerLetters[CHOOSE i \in 1..Len(UpperLetters) : UpperLetters[i] = ch]]

LowerChar(ch) == IF ch \in DOMAIN LowerMap THEN LowerMap[ch] ELSE ch

Lower(t) == [i \in 1..Len(t) |-> LowerChar(t[i])]

IsSpace(ch) == ch = " "

RECURSIVE LStrip(_)
LStrip(t) == IF t # << >> /\ IsSpace(t[1]) THEN LStrip(Tail(t)) ELSE t

RECURSIVE RStrip(_)
RStrip(t) == IF t # << >> /\ IsSpace(t[Len(t)]) THEN RStrip(SubSeq(t, 1, Len(t) - 1)) ELSE t

Strip(t) == RStrip(LStrip(t))

\* phrase in t
Contains(phrase, t) ==
    \E i \in 0..(Len(t) - Len(phrase)) : \A j \in 1..Len(phrase) : t[i + j] = phrase[j]

\* any(phrase in t for phrase in phrases)
AnyIn(phrases, t) == \E k \in 1..Len(phrases) : Contains(phrases[k], t)

\* t[:n]
Prefix(t, n) == SubSeq(t, 1, IF Len(t) < n THEN Len(t) ELSE n)

\* t[-n:]
Suffix(t, n) == SubSeq(t, IF Len(t) < n THEN 1 ELSE Len(t) - n + 1, Len(t))

(***************************************************************************)
(* Transcript classifier.                                                  *)
(***************************************************************************)
detect_interruption_intent(text, context) ==
    LET text_lower == Strip(Lower(text))
    IN  IF AnyIn(strong_interrupts, text_lower) THEN "strong_interrupt"
        ELSE IF AnyIn(question_interrupts, text_lower) THEN "question_interrupt"
        ELSE IF AnyIn(topic_change, text_lower) THEN "topic_change"
        ELSE IF Len(text_lower) > NewInputMinLen
                /\ ~AnyIn(acknowledgement_words, text_lower) THEN "new_input"
        ELSE "continue"

\* the goodbye test of process_voice
IsGoodbye(speech_text) == AnyIn(end_phrases, Lower(speech_text))

\* The utterances of the model, and the two classifications tabulated over
\* them once; an utterance outside the table is classified directly.
Utterances ==
    LET raw == {SilentSpeech, GoodbyeSpeech, StrongSpeech, TopicSpeech, QuestionSpeech,
                NewInputSpeech, ShortSpeech}
                   \cup {test_interruptions[i] : i \in 1..Len(test_interruptions)}
    IN  raw \cup {Strip(t) : t \in raw}

IntentTable == [t \in Utterances |-> detect_interruption_intent(t, << >>)]

GoodbyeTable == [t \in Utterances |-> IsGoodbye(t)]

Intent(text, context) ==
    IF text \in Utterances THEN IntentTable[text]
    ELSE detect_interruption_intent(text, context)

Goodbye(speech_text) ==
    IF speech_text \in Utterances THEN GoodbyeTable[speech_text]
    ELSE IsGoodbye(speech_text)

(***************************************************************************)
(* Call State and Conversation Memory.                                     *)
(***************************************************************************)
AdvancedCallState(caller_id) ==
    [ caller_id |-> caller_id,
      start_time |-> now,
      interaction_count |-> 0,
      last_activity |-> now,
      user_sentiment |-> "neutral",
      conversation_topic |-> None,
      interruption_count |-> 0,
      silence_count |-> 0,
      is_bot_speaking |-> FALSE,
      current_response_id |-> None,
      interruption_buffer |-> << >>,
      last_user_input |-> << >>,
      mid_response_interrupted |-> FALSE ]

Turn(role, content) == [role |-> role, content |-> content]

SystemTurn == Turn("system", SystemPrompt)

\* d[k] = v on a dict
Put(d, k, v) == [x \in DOMAIN d \cup {k} |-> IF x = k THEN v ELSE d[x]]

\* del d[k] when k is in d, d otherwise
Del(d, k) == [x \in DOMAIN d \ {k} |-> d[x]]

get_enhanced_conversation_context(caller_id, contexts, states) ==
    IF caller_id \notin DOMAIN contexts
    THEN [ conversation_contexts |-> Put(contexts, caller_id, <<SystemTurn>>),
           call_states |-> Put(states, caller_id, AdvancedCallState(caller_id)) ]
    ELSE [ conversation_contexts |-> contexts, call_states |-> states ]

(***************************************************************************)
(* Reply generation.  completion is what client.chat.completions.create    *)
(* does for this call: it raises, or returns a message content.            *)
(***************************************************************************)
Completions ==
    { [raises |-> FALSE, content |-> ShortReply],
      [raises |-> FALSE, content |-> LongReply],
      [raises |-> FALSE, content |-> BlankReply],
      [raises |-> TRUE, content |-> << >>] }

\* call_states.get(caller_id), as a list of at most one object
GetState(states, caller_id) ==
    IF caller_id \in DOMAIN states THEN <<states[caller_id]>> ELSE << >>

\* response_text after the length limit
ShortenResponse(response_text) ==
    IF Len(response_text) > MaxResponseChars
    THEN Prefix(response_text, MaxResponseChars) \o Ellipsis
    ELSE response_text

\* the value the local name `messages` is rebound to; the list stored in
\* conversation_contexts is not the target of that assignment
TrimMessages(messages) ==
    IF Len(messages) > MaxMessages
    THEN Prefix(messages, 1) \o Suffix(messages, KeepRecent)
    ELSE messages

\* CountInteraction on a counter that all the callers share
CountEveryInteraction(states, caller_id, prompt) ==
    IF caller_id \in DOMAIN states
    THEN [c \in DOMAIN states |->
             IF c = caller_id
             THEN [states[c] EXCEPT !.interaction_count = @ + 1,
                                    !.last_activity = now,
                                    !.last_user_input = prompt]
             ELSE [states[c] EXCEPT !.interaction_count = @ + 1]]
    ELSE states

\* call_state.interaction_count += 1, last_activity = now, last_user_input = prompt
CountInteraction(states, caller_id, prompt) ==
    IF caller_id \in DOMAIN states
    THEN [states EXCEPT ![caller_id].interaction_count = @ + 1,
                        ![caller_id].last_activity = now,
                        ![caller_id].last_user_input = prompt]
    ELSE states

\* AppendTurn with the turn inserted at the front of the list
PrependTurn(contexts, caller_id, turn) ==
    [contexts EXCEPT ![caller_id] = <<turn>> \o @]

\* messages.append(turn) on the list stored for caller_id
AppendTurn(contexts, caller_id, turn) ==
    [contexts EXCEPT ![caller_id] = Append(@, turn)]

\* one client.chat.completions.create call: what it was sent, what it did
Call(messages, completion) == [messages |-> messages, completion |-> completion]

Outcome(text, contexts, states, call_state, calls, messages, lines) ==
    [ text |-> text,
      conversation_contexts |-> contexts,
      call_states |-> states,
      call_state |-> call_state,
      generator_calls |-> calls,
      messages |-> messages,
      log |-> lines ]

\* generate_ultra_fast_response that stores the completion's content as received
generate_unstripped_response(prompt, caller_id, contexts, states, client_ok, completion) ==
    IF ~client_ok
    THEN Outcome(TechnicalProblemText, contexts, states, GetState(states, caller_id),
                 << >>, << >>, << >>)
    ELSE IF prompt = << >> \/ Len(Strip(prompt)) < MinPromptLen
    THEN Outcome(SayItText, contexts, states, GetState(states, caller_id),
                 << >>, << >>, << >>)
    ELSE
    LET counted == CountInteraction(states, caller_id, prompt)
        call_state == GetState(counted, caller_id)
        got == get_enhanced_conversation_context(caller_id, contexts, counted)
        asked == AppendTurn(got.conversation_contexts, caller_id, Turn("user", prompt))
        sent == asked[caller_id]
        response_text == ShortenResponse(Strip(completion.content))
        answered == AppendTurn(asked, caller_id, Turn("assistant", completion.content))
    IN  IF completion.raises
        THEN Outcome(FallbackText, asked, got.call_states, call_state, <<Call(sent, completion)>>,
                     sent, <<"Error in ultra-fast response">>)
        ELSE Outcome(response_text, answered, got.call_states, call_state,
                     <<Call(sent, completion)>>, TrimMessages(answered[caller_id]), <<"Ultra-fast response">>)

generate_ultra_fast_response(prompt, caller_id, contexts, states, client_ok, completion) ==
    IF ~client_ok
    THEN Outcome(TechnicalProblemText, contexts, states, GetState(states, caller_id),
                 << >>, << >>, << >>)
    ELSE IF prompt = << >> \/ Len(Strip(prompt)) < MinPromptLen
    THEN Outcome(SayItText, contexts, states, GetState(states, caller_id),
                 << >>, << >>, << >>)
    ELSE
    LET counted == CountInteraction(states, caller_id, prompt)
        call_state == GetState(counted, caller_id)
        got == get_enhanced_conversation_context(caller_id, contexts, counted)
        asked == AppendTurn(got.conversation_contexts, caller_id, Turn("user", prompt))
        sent == asked[caller_id]
        response_text == ShortenResponse(Strip(completion.content))
        answered == AppendTurn(asked, caller_id, Turn("assistant", response_text))
    IN  IF completion.raises
        THEN Outcome(FallbackText, asked, got.call_states, call_state, <<Call(sent, completion)>>,
                     sent, <<"Error in ultra-fast response">>)
        ELSE Outcome(response_text, answered, got.call_states, call_state,
                     <<Call(sent, completion)>>, TrimMessages(answered[caller_id]), <<"Ultra-fast response">>)

\* call_state.conversation_topic = None
ClearTopic(states, caller_id) ==
    IF caller_id \in DOMAIN states
    THEN [states EXCEPT ![caller_id].conversation_topic = None]
    ELSE states

\* generate_interruption_response that sends a strong interrupt to the generator
generate_every_interruption_response(interruption_type, new_input, caller_id, contexts, states, client_ok, completion) ==
    IF interruption_type = "topic_change"
    THEN Outcome(NewQuestionText, contexts, ClearTopic(states, caller_id),
                 GetState(ClearTopic(states, caller_id), caller_id), << >>, << >>, << >>)
    ELSE IF interruption_type \in {"strong_interrupt", "question_interrupt", "new_input"}
    THEN generate_ultra_fast_response(new_input, caller_id, contexts, states,
                                      client_ok, completion)
    ELSE Outcome(ListeningText, contexts, states, GetState(states, caller_id),
                 << >>, << >>, << >>)

generate_interruption_response(interruption_type, new_input, caller_id, contexts, states, client_ok, completion) ==
    IF interruption_type = "strong_interrupt"
    THEN Outcome(GoAheadText, contexts, states, GetState(states, caller_id),
                 << >>, << >>, << >>)
    ELSE IF interruption_type = "question_interrupt"
    THEN generate_ultra_fast_response(new_input, caller_id, contexts, states,
                                      client_ok, completion)
    ELSE IF interruption_type = "topic_change"
    THEN Outcome(NewQuestionText, contexts, ClearTopic(states, caller_id),
                 GetState(ClearTopic(states, caller_id), caller_id), << >>, << >>, << >>)
    ELSE IF interruption_type = "new_input"
    THEN generate_ultra_fast_response(new_input, caller_id, contexts, states,
                                      client_ok, completion)
    ELSE Outcome(ListeningText, contexts, states, GetState(states, caller_id),
                 << >>, << >>, << >>)

(***************************************************************************)
(* ResponseManager.                                                        *)
(***************************************************************************)
\* ResponseManager.interrupt_response: the new interrupted_responses
interrupt_response(caller_id, active, interrupted) ==
    IF caller_id \in DOMAIN active
    THEN interrupted \cup {active[caller_id]}
    ELSE interrupted

\* ResponseManager.is_interrupted
is_interrupted(response_id, interrupted) == response_id \in interrupted

\* f"{caller_id}_{int(time.time())}"
response_id(caller_id) == caller_id \o "_" \o ToString(now)

\* ai_response.split(): the words between runs of white space, from text[i] on
RECURSIVE split(_, _, _)
split(text, i, word) ==
    IF i > Len(text)
    THEN IF word = << >> THEN << >> ELSE <<word>>
    ELSE IF IsSpace(text[i])
    THEN (IF word = << >> THEN << >> ELSE <<word>>) \o split(text, i + 1, << >>)
    ELSE split(text, i + 1, Append(word, text[i]))

\* " ".join(words)
RECURSIVE join(_)
join(words) ==
    IF words = << >> THEN << >>
    ELSE IF Len(words) = 1 THEN words[1]
    ELSE words[1] \o <<" ">> \o join(Tail(words))

\* the chunks of ChunkWords words each that create_interruptible_response builds
RECURSIVE Chunks(_)
Chunks(words) ==
    IF words = << >> THEN << >>
    ELSE IF Len(words) <= ChunkWords THEN <<join(words)>>
    ELSE <<join(SubSeq(words, 1, ChunkWords))>>
             \o Chunks(SubSeq(words, ChunkWords + 1, Len(words)))

(***************************************************************************)
(* Requests and responses.                                                 *)
(***************************************************************************)
\* float(s): the value in hundredths, or ValueError
float(s) ==
    CASE s = "0"   -> [raises |-> FALSE, value |-> 0]
      [] s = "0.2" -> [raises |-> FALSE, value |-> 20]
      [] s = "0.3" -> [raises |-> FALSE, value |-> 30]
      [] s = "0.9" -> [raises |-> FALSE, value |-> 90]
      [] OTHER     -> [raises |-> TRUE, value |-> 0]

VoiceForms ==
    { [SpeechResult |-> SilentSpeech, Confidence |-> "0.2"],
      [SpeechResult |-> QuestionSpeech, Confidence |-> "0.2"],
      [SpeechResult |-> GoodbyeSpeech, Confidence |-> "0.9"],
      [SpeechResult |-> StrongSpeech, Confidence |-> "0.9"],
      [SpeechResult |-> TopicSpeech, Confidence |-> "0.3"],
      [SpeechResult |-> QuestionSpeech, Confidence |-> "0.9"],
      [SpeechResult |-> NewInputSpeech, Confidence |-> "0.9"],
      [SpeechResult |-> ShortSpeech, Confidence |-> "0.9"],
      [SpeechResult |-> ShortSpeech, Confidence |-> "abc"] }

DetectForms ==
    { [PartialSpeechResult |-> StrongSpeech, SpeechResult |-> SilentSpeech],
      [PartialSpeechResult |-> ShortSpeech, SpeechResult |-> SilentSpeech],
      [PartialSpeechResult |-> StrongSpeech, SpeechResult |-> QuestionSpeech] }

Say(text) == [verb |-> "Say", text |-> text]

Gather(text) == [verb |-> "Gather", text |-> text]

Hangup == [verb |-> "Hangup", text |-> << >>]

Pause == [verb |-> "Pause", text |-> << >>]

Served(body, contexts, states, interrupted, calls, lines) ==
    [ response |-> body,
      conversation_contexts |-> contexts,
      call_states |-> states,
      interrupted_responses |-> interrupted,
      generator_calls |-> calls,
      log |-> lines ]

\* CountSilence that counts the empty utterance as a turn as well
CountSilenceAsTurn(states, caller_id) ==
    IF caller_id \in DOMAIN states
    THEN [states EXCEPT ![caller_id].silence_count = @ + 1,
                        ![caller_id].interaction_count = @ + 1]
    ELSE states

\* call_state.silence_count += 1
CountSilence(states, caller_id) ==
    IF caller_id \in DOMAIN states
    THEN [states EXCEPT ![caller_id].silence_count = @ + 1]
    ELSE states

\* ResetSilence that leaves the streak as it is
KeepSilence(states, caller_id) == states

\* call_state.silence_count = 0
ResetSilence(states, caller_id) ==
    IF caller_id \in DOMAIN states
    THEN [states EXCEPT ![caller_id].silence_count = 0]
    ELSE states

\* BotSpeaking that takes every caller with a Call State as being spoken to
HasCallState(states, caller_id) == caller_id \in DOMAIN states

\* call_state and call_state.is_bot_speaking
BotSpeaking(states, caller_id) ==
    caller_id \in DOMAIN states /\ states[caller_id].is_bot_speaking

\* the interruption bookkeeping on the Call State
RecordInterruption(states, caller_id) ==
    IF BotSpeaking(states, caller_id)
    THEN [states EXCEPT ![caller_id].interruption_count = @ + 1,
                        ![caller_id].mid_response_interrupted = TRUE]
    ELSE states

\* the response_manager.interrupt_response call guarded by current_response_id
StopCurrentResponse(states, caller_id, active, interrupted) ==
    IF BotSpeaking(states, caller_id) /\ states[caller_id].current_response_id # None
    THEN interrupt_response(caller_id, active, interrupted)
    ELSE interrupted

\* Cleanup that deletes nothing
KeepEntry(d, caller_id) == d

\* Cleanup that empties the whole dict
CleanupAll(d, caller_id) == [x \in {} |-> None]

\* the cleanup of the goodbye branch
Cleanup(d, caller_id) == Del(d, caller_id)

\* process_voice whose exception leaves it: the request ends with no TwiML
process_voice_unhandled(contexts, states, interrupted) ==
    Served(<< >>, contexts, states, interrupted, << >>, <<"Error in process_voice">>)

\* the except clause of process_voice
process_voice_except(contexts, states, interrupted) ==
    Served(<<Say(CallAgainText), Hangup>>, contexts, states, interrupted,
           << >>, <<"Error in process_voice">>)

process_voice(caller_id, form, contexts, states, active, interrupted, client_ok, completion) ==
    LET speech_text == Strip(form.SpeechResult)
        confidence == float(form.Confidence)
    IN
    IF confidence.raises
    THEN process_voice_except(contexts, states, interrupted)
    ELSE IF confidence.value < ConfidenceThreshold \/ speech_text = << >>
    THEN
        LET counted == CountSilence(states, caller_id)
        IN  IF caller_id \in DOMAIN counted
               /\ counted[caller_id].silence_count >= SilenceLimit
            THEN Served(<<Say(ConnectionProblemText), Hangup>>, contexts, counted,
                        interrupted, << >>, <<"Processing">>)
            ELSE Served(<<Gather(RepeatText), Say(ThanksText)>>, contexts, counted,
                        interrupted, << >>, <<"Processing">>)
    ELSE
        LET reset == ResetSilence(states, caller_id)
            noted == RecordInterruption(reset, caller_id)
            stopped == StopCurrentResponse(reset, caller_id, active, interrupted)
            detected == IF BotSpeaking(reset, caller_id)
                        THEN <<"Processing", "INTERRUPTION DETECTED">>
                        ELSE <<"Processing">>
            interruption_type ==
                Intent(speech_text,
                    IF caller_id \in DOMAIN noted
                    THEN noted[caller_id].last_user_input ELSE << >>)
        IN
        IF Goodbye(speech_text)
        THEN Served(<<Say(ClosingText), Hangup>>, Cleanup(contexts, caller_id),
                    Cleanup(noted, caller_id), stopped, << >>, detected)
        ELSE
            LET out == IF interruption_type \in {"strong_interrupt", "question_interrupt",
                                                 "topic_change", "new_input"}
                       THEN generate_interruption_response(interruption_type, speech_text,
                                caller_id, contexts, noted, client_ok, completion)
                       ELSE generate_ultra_fast_response(speech_text, caller_id,
                                contexts, noted, client_ok, completion)
                prompt_index ==
                    IF caller_id \in DOMAIN states
                    THEN (out.call_state[1].interaction_count - 1) % Len(ultra_quick_prompts)
                    ELSE 0
            IN  Served(<<Say(out.text), Gather(ultra_quick_prompts[prompt_index + 1]),
                         Say(ThanksText)>>,
                       out.conversation_contexts, out.call_states, stopped,
                       out.generator_calls, detected \o out.log)

detect_interruption(caller_id, form, contexts, states, active, interrupted) ==
    LET detected_speech == IF form.SpeechResult # << >>
                           THEN form.SpeechResult ELSE form.PartialSpeechResult
        interruption_type == Intent(detected_speech, << >>)
    IN  IF detected_speech # << >> /\ Len(detected_speech) > MinDetectedLen
           /\ BotSpeaking(states, caller_id) /\ interruption_type # "continue"
        THEN Served(<< >>, contexts,
                    [RecordInterruption(states, caller_id)
                        EXCEPT ![caller_id].interruption_buffer =
                            Append(@, [text |-> detected_speech, type |-> interruption_type,
                                        timestamp |-> now])],
                    StopCurrentResponse(states, caller_id, active, interrupted),
                    << >>, <<"REAL-TIME INTERRUPTION">>)
        ELSE Served(<< >>, contexts, states, interrupted, << >>, << >>)

\* the loop of test_interruption over test_interruptions[i..]
RECURSIVE RunTestInterruptions(_, _, _, _, _, _)
RunTestInterruptions(i, contexts, states, client_ok, completion, calls) ==
    IF i > Len(test_interruptions)
    THEN Outcome(<< >>, contexts, states, << >>, calls, << >>, << >>)
    ELSE LET interruption == test_interruptions[i]
             out == generate_interruption_response(
                        Intent(interruption, << >>),
                        interruption, test_caller, contexts, states, client_ok, completion)
         IN  RunTestInterruptions(i + 1, out.conversation_contexts, out.call_states,
                                  client_ok, completion, calls \o out.generator_calls)

test_interruption(contexts, states, interrupted, client_ok, completion) ==
    LET kept == IF test_caller \in DOMAIN states
                THEN states
                ELSE Put(states, test_caller, AdvancedCallState(test_caller))
        speaking == [kept EXCEPT ![test_caller].is_bot_speaking = TRUE,
                                 ![test_caller].current_response_id = "test_interruption_test"]
        out == RunTestInterruptions(1, contexts, speaking, client_ok, completion, << >>)
    IN  Served(<<[verb |-> "Html", text |-> << >>]>>, out.conversation_contexts,
               out.call_states, interrupted, out.generator_calls, << >>)

EmptyDict == [x \in {} |-> None]

\* the threads of app.run(threaded=True) that serve /process_voice in steps
Threads == 1..MaxThreads

\* a thread that has no request
IdleThread ==
    [ pc |-> "idle", caller_id |-> None, form |-> None, call_state |-> << >>,
      sent |-> << >>, text |-> << >> ]

\* the threads that may run create_interruptible_response
Deliveries == 1..MaxDeliveries

\* a thread that is not inside create_interruptible_response
IdleDelivery ==
    [ pc |-> "idle", caller_id |-> None, response_id |-> None, chunks |-> << >>,
      i |-> 0, response |-> << >>, call_state |-> FALSE ]

Init ==
    /\ conversation_contexts = EmptyDict
    /\ call_states = EmptyDict
    /\ active_responses = EmptyDict
    /\ interrupted_responses = {}
    /\ client \in BOOLEAN
    /\ request = [route |-> None, caller_id |-> None, form |-> None, time |-> 0]
    /\ response = << >>
    /\ generator_calls = << >>
    /\ log = << >>
    /\ entry_call_state = << >>
    /\ now = 0
    /\ deliveries = [d \in Deliveries |-> IdleDelivery]
    /\ threads = [t \in Threads |-> IdleThread]
    /\ overlap_start = << >>

\* the model's bounds on what a step may leave behind
Bounded(max_len) ==
    /\ \A c \in DOMAIN conversation_contexts' : Len(conversation_contexts'[c]) <= max_len
    /\ \A c \in DOMAIN call_states' :
          /\ call_states'[c].silence_count <= MaxSilence
          /\ call_states'[c].interruption_count <= MaxInterruptions

\* the request removes or replaces the AdvancedCallState object of caller c
Dropped(c, served) ==
    /\ c \in DOMAIN call_states
    /\ \/ c \notin DOMAIN served.call_states
       \/ c \notin DOMAIN conversation_contexts /\ c \in DOMAIN served.conversation_contexts

Serve(route, caller_id, form, served) ==
    /\ conversation_contexts' = served.conversation_contexts
    /\ call_states' = served.call_states
    /\ interrupted_responses' = served.interrupted_responses
    /\ request' = [route |-> route, caller_id |-> caller_id, form |-> form, time |-> now]
    /\ response' = served.response
    /\ generator_calls' = served.generator_calls
    /\ log' = served.log
    /\ entry_call_state' = GetState(call_states, caller_id)
    /\ deliveries' = [d \in Deliveries |->
                          IF deliveries[d].call_state /\ Dropped(deliveries[d].caller_id, served)
                          THEN [deliveries[d] EXCEPT !.call_state = FALSE]
                          ELSE deliveries[d]]
    /\ UNCHANGED <<active_responses, client, now, threads, overlap_start>>

voice ==
    Served(<<Say(WelcomeText), Gather(SpeakText), Say(ThanksText)>>,
           conversation_contexts, call_states, interrupted_responses, << >>,
           <<"Lightning call handler">>)

Voice ==
    \E caller_id \in Callers :
        \E served \in {voice} : Serve("/voice", caller_id, None, served)

ProcessVoiceRequest(caller_id, form, completion) ==
    \E served \in {process_voice(caller_id, form, conversation_contexts, call_states,
                                 active_responses, interrupted_responses, client,
                                 completion)} :
        Serve("/process_voice", caller_id, form, served)

ProcessVoice ==
    \E caller_id \in Callers, form \in VoiceForms, completion \in Completions :
        /\ ProcessVoiceRequest(caller_id, form, completion)
        /\ Bounded(MaxContextLen)

DetectInterruption ==
    \E caller_id \in Callers, form \in DetectForms :
        /\ \E served \in {detect_interruption(caller_id, form, conversation_contexts,
                                               call_states, active_responses,
                                               interrupted_responses)} :
              Serve("/detect_interruption", caller_id, form, served)
        /\ Bounded(MaxContextLen)

TestInterruption ==
    \E completion \in Completions :
        /\ \E served \in {test_interruption(conversation_contexts, call_states,
                                             interrupted_responses, client, completion)} :
              Serve("/test_interruption", test_caller, None, served)
        /\ Bounded(MaxContextLen)

Next == Voice \/ ProcessVoice \/ DetectInterruption \/ TestInterruption

Spec == Init /\ [][Next]_vars

(***************************************************************************)
(* The call-handling routes alone: no /test_interruption request and no    *)
(* run of create_interruptible_response.                                   *)
(***************************************************************************)
NextCalls == Voice \/ ProcessVoice \/ DetectInterruption

SpecCalls == Init /\ [][NextCalls]_vars

(***************************************************************************)
(* A second specification in which /process_voice receives one question    *)
(* after another, so that a Conversation Memory grows past MaxMessages.    *)
(***************************************************************************)
CapForms ==
    { [SpeechResult |-> QuestionSpeech, Confidence |-> "0.9"],
      [SpeechResult |-> NewInputSpeech, Confidence |-> "0.9"],
      [SpeechResult |-> TopicSpeech, Confidence |-> "0.3"],
      [SpeechResult |-> SilentSpeech, Confidence |-> "0.2"] }

CapCompletions == { [raises |-> FALSE, content |-> ShortReply] }

CapProcessVoice ==
    \E caller_id \in Callers, form \in CapForms, completion \in CapCompletions :
        /\ ProcessVoiceRequest(caller_id, form, completion)
        /\ Bounded(MaxCapContextLen)

NextCap == Voice \/ CapProcessVoice

SpecCap == Init /\ [][NextCap]_vars

(***************************************************************************)
(* A third specification in which the clock ticks between the requests,    *)
(* so that the time a Call State was last touched can fall behind.         *)
(***************************************************************************)
Tick ==
    /\ now < MaxClock
    /\ now' = now + 1
    /\ UNCHANGED <<conversation_contexts, call_states, active_responses,
                   interrupted_responses, client, request, response, generator_calls,
                   log, entry_call_state, deliveries, threads, overlap_start>>

ClockForms ==
    { [SpeechResult |-> QuestionSpeech, Confidence |-> "0.9"],
      [SpeechResult |-> StrongSpeech, Confidence |-> "0.9"],
      [SpeechResult |-> QuestionSpeech, Confidence |-> "0.2"],
      [SpeechResult |-> SilentSpeech, Confidence |-> "0.2"] }

ClockProcessVoice ==
    \E caller_id \in Callers, form \in ClockForms, completion \in CapCompletions :
        /\ ProcessVoiceRequest(caller_id, form, completion)
        /\ Bounded(MaxContextLen)

NextClock == Tick \/ ClockProcessVoice \/ DetectInterruption \/ TestInterruption

SpecClock == Init /\ [][NextClock]_vars

(***************************************************************************)
(* create_interruptible_response, run by the threads of Deliveries.  The   *)
(* test of is_interrupted and the say of the chunk are separate steps, as  *)
(* nothing in the source makes them one.  call_state is TRUE while the     *)
(* object the thread fetched at its start is still the one in call_states. *)
(***************************************************************************)
\* a reply of six words, which makes two chunks
SixWordReply ==
    <<"e", "k", " ", "d", "o", " ", "t", "e", "e", "n", " ", "c", "h", "a", "a", "r", " ", "p", "a", "a", "n", "c", "h", " ", "c", "h", "h", "a", "h">>

DeliveryReplies == {ShortReply, SixWordReply}

\* lines 238-262: the id, the flags, start_response and the chunks
StartDelivery(d, caller_id, ai_response) ==
    /\ deliveries[d].pc = "idle"
    /\ call_states' =
          IF caller_id \in DOMAIN call_states
          THEN [call_states EXCEPT ![caller_id].is_bot_speaking = TRUE,
                                   ![caller_id].current_response_id = response_id(caller_id)]
          ELSE call_states
    /\ active_responses' = Put(active_responses, caller_id, response_id(caller_id))
    /\ deliveries' = [deliveries EXCEPT ![d] =
          [ pc |-> "check", caller_id |-> caller_id, response_id |-> response_id(caller_id),
            chunks |-> Chunks(split(ai_response, 1, << >>)), i |-> 1, response |-> << >>,
            call_state |-> caller_id \in DOMAIN call_states ]]
    /\ UNCHANGED <<conversation_contexts, interrupted_responses, client, request, response,
                   generator_calls, log, entry_call_state, now, threads, overlap_start>>

\* lines 265-269: the loop test and the is_interrupted test before a chunk
CheckChunk(d) ==
    /\ deliveries[d].pc = "check"
    /\ deliveries' = [deliveries EXCEPT ![d].pc =
          IF \/ deliveries[d].i > Len(deliveries[d].chunks)
             \/ is_interrupted(deliveries[d].response_id, interrupted_responses)
          THEN "end" ELSE "say"]
    /\ UNCHANGED <<conversation_contexts, call_states, active_responses,
                   interrupted_responses, client, request, response, generator_calls,
                   log, entry_call_state, now, threads, overlap_start>>

\* lines 271-275: response.say(chunk) and the pause after all but the last chunk
SayChunk(d) ==
    /\ deliveries[d].pc = "say"
    /\ deliveries' = [deliveries EXCEPT
          ![d].response = @ \o <<Say(deliveries[d].chunks[deliveries[d].i])>>
                            \o (IF deliveries[d].i < Len(deliveries[d].chunks)
                                THEN <<Pause>> ELSE << >>),
          ![d].i = @ + 1,
          ![d].pc = "check"]
    /\ UNCHANGED <<conversation_contexts, call_states, active_responses,
                   interrupted_responses, client, request, response, generator_calls,
                   log, entry_call_state, now, threads, overlap_start>>

\* lines 277-284: end_response, the flags cleared, the response returned
EndDelivery(d) ==
    /\ deliveries[d].pc = "end"
    /\ active_responses' = Del(active_responses, deliveries[d].caller_id)
    /\ interrupted_responses' = interrupted_responses \ {deliveries[d].response_id}
    /\ call_states' =
          IF deliveries[d].call_state
          THEN [call_states EXCEPT ![deliveries[d].caller_id].is_bot_speaking = FALSE,
                                   ![deliveries[d].caller_id].current_response_id = None]
          ELSE call_states
    /\ deliveries' = [deliveries EXCEPT ![d] = IdleDelivery]
    /\ UNCHANGED <<conversation_contexts, client, request, response, generator_calls,
                   log, entry_call_state, now, threads, overlap_start>>

Deliver ==
    \E d \in Deliveries, caller_id \in Callers, ai_response \in DeliveryReplies :
        StartDelivery(d, caller_id, ai_response)

Check == \E d \in Deliveries : CheckChunk(d)

SayNext == \E d \in Deliveries : SayChunk(d)

EndResponse == \E d \in Deliveries : EndDelivery(d)

DeliveryForms ==
    { [SpeechResult |-> QuestionSpeech, Confidence |-> "0.9"],
      [SpeechResult |-> StrongSpeech, Confidence |-> "0.9"] }

DeliveryProcessVoice ==
    \E caller_id \in Callers, form \in DeliveryForms, completion \in CapCompletions :
        /\ ProcessVoiceRequest(caller_id, form, completion)
        /\ Bounded(MaxDeliveryContextLen)

NextDelivery ==
    \/ DeliveryProcessVoice \/ DetectInterruption
    \/ Deliver \/ Check \/ SayNext \/ EndResponse

SpecDelivery == Init /\ [][NextDelivery]_vars

(***************************************************************************)
(* A specification with two callers: the default From of the routes and    *)
(* the fixed id of /test_interruption, each with its requests and its      *)
(* deliveries, interleaved in every way.                                   *)
(***************************************************************************)
PairCallers == {"unknown", test_caller}

PairForms ==
    { [SpeechResult |-> QuestionSpeech, Confidence |-> "0.9"],
      [SpeechResult |-> GoodbyeSpeech, Confidence |-> "0.9"],
      [SpeechResult |-> StrongSpeech, Confidence |-> "0.9"] }

PairProcessVoice ==
    \E caller_id \in PairCallers, form \in PairForms, completion \in CapCompletions :
        /\ ProcessVoiceRequest(caller_id, form, completion)
        /\ Bounded(MaxPairContextLen)

PairDetectForms ==
    { [PartialSpeechResult |-> StrongSpeech, SpeechResult |-> SilentSpeech] }

PairDetectInterruption ==
    \E caller_id \in PairCallers, form \in PairDetectForms :
        /\ \E served \in {detect_interruption(caller_id, form, conversation_contexts,
                                               call_states, active_responses,
                                               interrupted_responses)} :
              Serve("/detect_interruption", caller_id, form, served)
        /\ Bounded(MaxPairContextLen)

\* one delivery at a time, for either caller, on the first thread
PairDeliver ==
    \E caller_id \in PairCallers : StartDelivery(1, caller_id, ShortReply)

NextPair ==
    \/ PairProcessVoice \/ PairDetectInterruption
    \/ PairDeliver \/ Check \/ SayNext \/ EndResponse

SpecPair == Init /\ [][NextPair]_vars

(***************************************************************************)
(* A specification in which /process_voice is not one step: the threads    *)
(* of Threads each serve one request that reaches the Reply Generator, and *)
(* another thread may run between the statements of process_voice and      *)
(* generate_ultra_fast_response, as nothing in the source holds a lock.    *)
(* Before the first of them starts, requests are served one at a time.     *)
(***************************************************************************)
OverlapForms ==
    { [SpeechResult |-> QuestionSpeech, Confidence |-> "0.9"],
      [SpeechResult |-> NewInputSpeech, Confidence |-> "0.9"] }

NoneStarted == \A t \in Threads : threads[t].pc = "idle"

OverlapFrame ==
    UNCHANGED <<active_responses, client, request, response, generator_calls, log,
                entry_call_state, now, deliveries>>

\* lines 329-401: the form, the Call State looked up, the silence count reset,
\* the interruption noted, the utterance dispatched
Enter(t, caller_id, form) ==
    /\ threads[t].pc = "idle"
    /\ call_states' = RecordInterruption(ResetSilence(call_states, caller_id), caller_id)
    /\ interrupted_responses' =
          StopCurrentResponse(ResetSilence(call_states, caller_id), caller_id,
                              active_responses, interrupted_responses)
    /\ threads' = [threads EXCEPT ![t] =
          [ pc |-> IF client THEN "count" ELSE "respond",
            caller_id |-> caller_id, form |-> form,
            call_state |-> GetState(call_states, caller_id),
            sent |-> << >>,
            text |-> IF client THEN << >> ELSE TechnicalProblemText ]]
    /\ overlap_start' =
          IF NoneStarted
          THEN <<[conversation_contexts |-> conversation_contexts,
                  call_states |-> call_states]>>
          ELSE overlap_start
    /\ UNCHANGED <<conversation_contexts, active_responses, client, request, response,
                   generator_calls, log, entry_call_state, now, deliveries>>

\* lines 195-199
Count(t) ==
    /\ threads[t].pc = "count"
    /\ call_states' = CountInteraction(call_states, threads[t].caller_id,
                                       Strip(threads[t].form.SpeechResult))
    /\ threads' = [threads EXCEPT ![t].pc = "context"]
    /\ UNCHANGED <<conversation_contexts, interrupted_responses, overlap_start>>
    /\ OverlapFrame

\* line 201
GetContext(t) ==
    /\ threads[t].pc = "context"
    /\ \E got \in {get_enhanced_conversation_context(threads[t].caller_id,
                                                      conversation_contexts, call_states)} :
          /\ conversation_contexts' = got.conversation_contexts
          /\ call_states' = got.call_states
    /\ threads' = [threads EXCEPT ![t].pc = "append"]
    /\ UNCHANGED <<interrupted_responses, overlap_start>>
    /\ OverlapFrame

\* line 204
AppendUser(t) ==
    /\ threads[t].pc = "append"
    /\ conversation_contexts' =
          AppendTurn(conversation_contexts, threads[t].caller_id,
                     Turn("user", Strip(threads[t].form.SpeechResult)))
    /\ threads' = [threads EXCEPT ![t].pc = "call"]
    /\ UNCHANGED <<call_states, interrupted_responses, overlap_start>>
    /\ OverlapFrame

\* lines 207-215: the request to the Reply Generator leaves with the list as it is
CallGenerator(t) ==
    /\ threads[t].pc = "call"
    /\ threads' = [threads EXCEPT ![t].pc = "reply",
                                  ![t].sent = conversation_contexts[threads[t].caller_id]]
    /\ UNCHANGED <<conversation_contexts, call_states, interrupted_responses,
                   overlap_start>>
    /\ OverlapFrame

\* lines 217-228: the reply comes back and is appended
Reply(t, completion) ==
    /\ threads[t].pc = "reply"
    /\ conversation_contexts' =
          AppendTurn(conversation_contexts, threads[t].caller_id,
                     Turn("assistant", ShortenResponse(Strip(completion.content))))
    /\ threads' = [threads EXCEPT ![t].pc = "respond",
                                  ![t].text = ShortenResponse(Strip(completion.content))]
    /\ UNCHANGED <<call_states, interrupted_responses, overlap_start>>
    /\ OverlapFrame

\* lines 404-428: the reply spoken, the next utterance gathered
Respond(t) ==
    /\ threads[t].pc = "respond"
    /\ request' = [route |-> "/process_voice", caller_id |-> threads[t].caller_id,
                   form |-> threads[t].form, time |-> now]
    /\ response' =
          <<Say(threads[t].text),
            Gather(ultra_quick_prompts[
                IF threads[t].call_state # << >>
                THEN ((call_states[threads[t].caller_id].interaction_count - 1)
                         % Len(ultra_quick_prompts)) + 1
                ELSE 1]),
            Say(ThanksText)>>
    /\ generator_calls' =
          IF threads[t].sent = << >> THEN << >>
          ELSE <<Call(threads[t].sent, CHOOSE c \in CapCompletions : TRUE)>>
    /\ log' = <<"Processing">>
    /\ entry_call_state' = threads[t].call_state
    /\ threads' = [threads EXCEPT ![t].pc = "done"]
    /\ UNCHANGED <<conversation_contexts, call_states, active_responses,
                   interrupted_responses, client, now, deliveries, overlap_start>>

OverlapEnter ==
    \E t \in Threads, caller_id \in Callers, form \in OverlapForms :
        Enter(t, caller_id, form)

OverlapCount == \E t \in Threads : Count(t)

OverlapGetContext == \E t \in Threads : GetContext(t)

OverlapAppendUser == \E t \in Threads : AppendUser(t)

OverlapCallGenerator == \E t \in Threads : CallGenerator(t)

OverlapReply == \E t \in Threads, completion \in CapCompletions : Reply(t, completion)

OverlapRespond == \E t \in Threads : Respond(t)

\* the requests served one at a time before the overlapping ones
OverlapProcessVoice ==
    /\ NoneStarted
    /\ \E caller_id \in Callers, form \in OverlapForms, completion \in CapCompletions :
          /\ ProcessVoiceRequest(caller_id, form, completion)
          /\ Bounded(MaxOverlapStartLen)

NextOverlap ==
    \/ OverlapProcessVoice \/ OverlapEnter \/ OverlapCount \/ OverlapGetContext
    \/ OverlapAppendUser \/ OverlapCallGenerator \/ OverlapReply \/ OverlapRespond

SpecOverlap == Init /\ [][NextOverlap]_vars

(***************************************************************************)
(* How /process_voice reads a form, for stating the properties.            *)
(***************************************************************************)
Speech(form) == Strip(form.SpeechResult)

\* the form is classified empty
IsEmpty(form) ==
    /\ ~float(form.Confidence).raises
    /\ float(form.Confidence).value < ConfidenceThreshold \/ Speech(form) = << >>

\* the form is accepted: non-empty text with confidence at or above the threshold
IsAccepted(form) ==
    /\ ~float(form.Confidence).raises
    /\ float(form.Confidence).value >= ConfidenceThreshold
    /\ Speech(form) # << >>

\* the Conversation Memory of caller c, as a request that creates it finds it
MemoryOf(contexts, c) == IF c \in DOMAIN contexts THEN contexts[c] ELSE <<SystemTurn>>

\* the text of the first Say of a response
Spoken(body) == body[1].text

(***************************************************************************)
(* C1: every caller's Conversation Memory holds at most MaxMessages turns  *)
(* (the system turn and the KeepRecent most recent turns).                 *)
(***************************************************************************)
MemoryWithinCap ==
    \A c \in DOMAIN conversation_contexts :
        Len(conversation_contexts[c]) <= MaxMessages

(***************************************************************************)
(* C2: every Conversation Memory holds exactly one system turn, and it is  *)
(* the first turn.                                                         *)
(***************************************************************************)
OneSystemTurnFirst ==
    \A c \in DOMAIN conversation_contexts :
        LET messages == conversation_contexts[c]
        IN  /\ Len(messages) >= 1
            /\ messages[1] = SystemTurn
            /\ \A i \in 2..Len(messages) : messages[i].role # "system"

OneSystemTurnFirstWitness ==
    \E c \in DOMAIN conversation_contexts :
        /\ Len(conversation_contexts[c]) = 4
        /\ conversation_contexts[c][2].role = "user"
        /\ conversation_contexts[c][3].role = "user"
        /\ conversation_contexts[c][4].role = "assistant"

(***************************************************************************)
(* C3: an accepted utterance with a goodbye phrase gets the closing line   *)
(* and a hangup and leaves neither Call State nor Conversation Memory for  *)
(* the caller, whatever the speaking flag was; a Call State that           *)
(* /process_voice creates afterwards is a fresh one and a Conversation     *)
(* Memory it creates starts from the system turn alone.                    *)
(***************************************************************************)
GoodbyeDestroysSession ==
    [][request'.route = "/process_voice" =>
        LET c == request'.caller_id
            form == request'.form
        IN  /\ (IsAccepted(form) /\ Goodbye(Speech(form))) =>
                   /\ response' = <<Say(ClosingText), Hangup>>
                   /\ c \notin DOMAIN call_states'
                   /\ c \notin DOMAIN conversation_contexts'
            /\ (c \notin DOMAIN call_states /\ c \in DOMAIN call_states') =>
                   call_states'[c] = AdvancedCallState(c)
            /\ (c \notin DOMAIN conversation_contexts
                    /\ c \in DOMAIN conversation_contexts') =>
                   /\ conversation_contexts'[c][1] = SystemTurn
                   /\ generator_calls'[1].messages =
                          <<SystemTurn, Turn("user", Speech(form))>>
    ]_vars

GoodbyeDestroysSessionWitness ==
    /\ request.route = "/process_voice"
    /\ IsAccepted(request.form)
    /\ Goodbye(Speech(request.form))
    /\ entry_call_state # << >>
    /\ entry_call_state[1].is_bot_speaking
    /\ entry_call_state[1].interaction_count > 0
    /\ request.caller_id \notin DOMAIN call_states
    /\ request.caller_id \notin DOMAIN conversation_contexts

(***************************************************************************)
(* C5: after /process_voice handles an accepted utterance, the caller's    *)
(* silence streak is 0 if the caller still has a Call State.               *)
(***************************************************************************)
SilenceResetOnAccepted ==
    [][(/\ request'.route = "/process_voice"
        /\ IsAccepted(request'.form)
        /\ request'.caller_id \in DOMAIN call_states') =>
           call_states'[request'.caller_id].silence_count = 0
    ]_vars

SilenceResetOnAcceptedWitness ==
    /\ request.route = "/process_voice"
    /\ IsAccepted(request.form)
    /\ entry_call_state # << >>
    /\ entry_call_state[1].silence_count >= SilenceLimit
    /\ request.caller_id \in DOMAIN call_states
    /\ call_states[request.caller_id].silence_count = 0

(***************************************************************************)
(* C7: an accepted strong-interrupt utterance that is no goodbye gets the  *)
(* fixed acknowledgment with no Reply Generator call, and the caller's     *)
(* Conversation Memory and turn counter stay as they were (neither is      *)
(* created).                                                               *)
(***************************************************************************)
StrongInterruptOnlyAcknowledged ==
    [][(/\ request'.route = "/process_voice"
        /\ IsAccepted(request'.form)
        /\ ~Goodbye(Speech(request'.form))
        /\ Intent(Speech(request'.form), << >>) = "strong_interrupt") =>
           LET c == request'.caller_id
           IN  /\ Spoken(response') = GoAheadText
               /\ generator_calls' = << >>
               /\ conversation_contexts' = conversation_contexts
               /\ DOMAIN call_states' = DOMAIN call_states
               /\ c \in DOMAIN call_states =>
                      call_states'[c].interaction_count = call_states[c].interaction_count
    ]_vars

StrongInterruptOnlyAcknowledgedWitness ==
    /\ request.route = "/process_voice"
    /\ IsAccepted(request.form)
    /\ ~Goodbye(Speech(request.form))
    /\ Intent(Speech(request.form), << >>) = "strong_interrupt"
    /\ Spoken(response) = GoAheadText
    /\ request.caller_id \in DOMAIN conversation_contexts
    /\ Len(conversation_contexts[request.caller_id]) > 1
    /\ call_states[request.caller_id].interaction_count > 0

(***************************************************************************)
(* C4: an empty utterance (empty text, confidence 0.2) raises the caller's *)
(* silence streak by exactly 1, from 0 when the caller has no Call State;  *)
(* the first two of a run get the repeat prompt and the third the hangup.  *)
(***************************************************************************)
SilentForm == [SpeechResult |-> SilentSpeech, Confidence |-> "0.2"]

ThirdSilenceTerminates ==
    [][(request'.route = "/process_voice" /\ request'.form = SilentForm) =>
        LET c == request'.caller_id
            streak == IF c \in DOMAIN call_states THEN call_states[c].silence_count ELSE 0
        IN  /\ c \in DOMAIN call_states'
            /\ call_states'[c].silence_count = streak + 1
            /\ streak < 2 => response' = <<Gather(RepeatText), Say(ThanksText)>>
            /\ streak = 2 => response' = <<Say(ConnectionProblemText), Hangup>>
    ]_vars

(***************************************************************************)
(* C6: when the speaking flag is set for response R and /process_voice     *)
(* gets an accepted utterance that is no goodbye, R is marked interrupted, *)
(* the interruption counter goes up by exactly 1, and the speaking flag    *)
(* and the current response id are cleared.                                *)
(***************************************************************************)
InterruptionReturnsToIdle ==
    [][(/\ request'.route = "/process_voice"
        /\ IsAccepted(request'.form)
        /\ ~Goodbye(Speech(request'.form))
        /\ BotSpeaking(call_states, request'.caller_id)) =>
           LET c == request'.caller_id
           IN  /\ c \in DOMAIN call_states'
               /\ call_states'[c].interruption_count = call_states[c].interruption_count + 1
               /\ ~call_states'[c].is_bot_speaking
               /\ call_states'[c].current_response_id = None
               /\ call_states[c].current_response_id \in interrupted_responses'
    ]_vars

(***************************************************************************)
(* C8: an accepted utterance that is neither goodbye nor strong-interrupt  *)
(* and whose generation does not fail makes exactly one Reply Generator    *)
(* call, with a history ending in the user turn, and extends the caller's  *)
(* Conversation Memory by exactly the user turn and the assistant turn     *)
(* that carries the spoken reply.  As amended: the utterance is not a      *)
(* topic-change either and has at least MinPromptLen characters.           *)
(***************************************************************************)
\* no Reply Generator call of the request raised
NoCallRaised(calls) == \A i \in 1..Len(calls) : ~calls[i].completion.raises

\* one call, and the memory grown by the user turn and the spoken reply
OneCallTwoTurns(c, speech, contexts, contexts_after, calls, body) ==
    /\ Len(calls) = 1
    /\ calls[1].messages = Append(MemoryOf(contexts, c), Turn("user", speech))
    /\ c \in DOMAIN contexts_after
    /\ contexts_after[c] = MemoryOf(contexts, c)
                               \o <<Turn("user", speech), Turn("assistant", Spoken(body))>>

EveryDispatchCounted ==
    [][request'.route = "/process_voice" =>
        LET c == request'.caller_id
            counted == IF c \in DOMAIN call_states
                       THEN call_states[c].interaction_count ELSE 0
        IN  /\ (c \in DOMAIN call_states /\ c \in DOMAIN call_states'
                    /\ ~Goodbye(Speech(request'.form))) =>
                   call_states'[c].interaction_count >= counted
            /\ generator_calls' # << >> =>
                   /\ c \in DOMAIN call_states'
                   /\ call_states'[c].interaction_count = counted + 1
    ]_vars

(***************************************************************************)
(* C10: when the Reply Generator raises or returns an empty result,        *)
(* /process_voice speaks a non-empty text and the caller's Conversation    *)
(* Memory is as before or longer by the user turn alone.                   *)
(***************************************************************************)
GenerationFailed(completion) == completion.raises \/ Strip(completion.content) = << >>

FailureLeavesNoAssistantTurn ==
    [][(/\ request'.route = "/process_voice"
        /\ generator_calls' # << >>
        /\ GenerationFailed(generator_calls'[1].completion)) =>
           LET c == request'.caller_id
               memory == MemoryOf(conversation_contexts, c)
           IN  /\ Spoken(response') # << >>
               /\ conversation_contexts'[c] \in
                      {memory, Append(memory, Turn("user", Speech(request'.form)))}
    ]_vars

(***************************************************************************)
(* C13: after a /process_voice request that is not a goodbye the caller    *)
(* has a Call State: one is created for a caller that had none, whatever   *)
(* the classification (empty and strong-interrupt included), and an        *)
(* existing one is kept.                                                   *)
(***************************************************************************)
FirstUtteranceCreatesCallState ==
    [][(/\ request'.route = "/process_voice"
        /\ ~float(request'.form.Confidence).raises
        /\ ~(IsAccepted(request'.form) /\ Goodbye(Speech(request'.form)))) =>
           LET c == request'.caller_id
           IN  /\ c \in DOMAIN call_states'
               /\ c \in DOMAIN call_states =>
                      /\ call_states'[c].is_bot_speaking = call_states[c].is_bot_speaking
                      /\ call_states'[c].interruption_count >= call_states[c].interruption_count
    ]_vars

(***************************************************************************)
(* C15: an utterance classified empty changes no Conversation Memory and   *)
(* no turn counter, whether it gets the repeat prompt or the hangup.       *)
(***************************************************************************)
EmptyLeavesMemoryAndTurns ==
    [][(request'.route = "/process_voice" /\ IsEmpty(request'.form)) =>
           /\ conversation_contexts' = conversation_contexts
           /\ DOMAIN call_states' = DOMAIN call_states
           /\ \A c \in DOMAIN call_states :
                  call_states'[c].interaction_count = call_states[c].interaction_count
           /\ generator_calls' = << >>
    ]_vars

EmptyLeavesMemoryAndTurnsWitness ==
    /\ request.route = "/process_voice"
    /\ IsEmpty(request.form)
    /\ Speech(request.form) # << >>
    /\ response = <<Say(ConnectionProblemText), Hangup>>
    /\ request.caller_id \in DOMAIN conversation_contexts
    /\ Len(conversation_contexts[request.caller_id]) > 1
    /\ call_states[request.caller_id].interaction_count > 0
(***************************************************************************)
(* C14.  Every inbound event for a caller that has a Call State, a         *)
(* /process_voice request of any classification or a /detect_interruption  *)
(* request with partial speech, sets that Call State's last_activity to    *)
(* the time of the event: the last_activity of the caller of the latest    *)
(* request is never older than that request.                               *)
(***************************************************************************)
LastActivityNeverOlderThanEvent ==
    (/\ request.route \in {"/process_voice", "/detect_interruption"}
     /\ (request.route = "/detect_interruption") =>
            (request.form.PartialSpeechResult # << >>)
     /\ entry_call_state # << >>
     /\ request.caller_id \in DOMAIN call_states) =>
        call_states[request.caller_id].last_activity >= request.time

(***************************************************************************)
(* C11.  Every /process_voice request, whatever the caller, the form, the  *)
(* generator and the state it finds, returns a directive that speaks and   *)
(* listens again or speaks and hangs up; none ends without a directive.    *)
(***************************************************************************)
SpeakAndListen(body) ==
    /\ \E i \in 1..Len(body) : body[i].verb = "Gather" /\ body[i].text # << >>
    /\ \A i \in 1..Len(body) : body[i].verb \in {"Say", "Gather"}

SpeakAndHangup(body) ==
    /\ Len(body) = 2
    /\ body[1].verb = "Say" /\ body[1].text # << >>
    /\ body[2] = Hangup

NoChunkAfterMark ==
    [][\A d \in Deliveries :
          Len(deliveries'[d].response) > Len(deliveries[d].response) =>
              ~is_interrupted(deliveries[d].response_id, interrupted_responses)
    ]_vars

(***************************************************************************)
(* A step that serves a request, as against a step of a delivery.          *)
(***************************************************************************)
RequestStep == \A d \in Deliveries : deliveries'[d].pc = deliveries[d].pc

(***************************************************************************)
(* C12.  Destroying a session is idempotent: a goodbye from a caller that  *)
(* has neither a Call State nor a Conversation Memory (never created, or   *)
(* destroyed by an earlier goodbye) raises no error and changes nothing:   *)
(* no other caller's state, and the global state stays what the first      *)
(* destruction left.                                                       *)
(***************************************************************************)
DestroyIsIdempotent ==
    [][(/\ RequestStep
        /\ request'.route = "/process_voice"
        /\ IsAccepted(request'.form)
        /\ Goodbye(Speech(request'.form))
        /\ request'.caller_id \notin DOMAIN call_states
        /\ request'.caller_id \notin DOMAIN conversation_contexts) =>
           /\ response' = <<Say(ClosingText), Hangup>>
           /\ call_states' = call_states
           /\ conversation_contexts' = conversation_contexts
           /\ active_responses' = active_responses
           /\ interrupted_responses' = interrupted_responses
    ]_vars

\* a second goodbye in a row from a caller without a session, beside a live session
DestroyIsIdempotentWitness ==
    /\ request.route = "/process_voice"
    /\ IsAccepted(request.form)
    /\ Goodbye(Speech(request.form))
    /\ entry_call_state = << >>
    /\ response = <<Say(ClosingText), Hangup>>
    /\ request.caller_id \notin DOMAIN call_states
    /\ request.caller_id \notin DOMAIN conversation_contexts
    /\ \E b \in PairCallers \ {request.caller_id} :
          /\ b \in DOMAIN call_states
          /\ b \in DOMAIN conversation_contexts
          /\ Len(conversation_contexts[b]) > 1

(***************************************************************************)
(* C16.  Distinct callers are independent.  Every step (a /process_voice   *)
(* or /detect_interruption request, a step of a delivery) belongs to one   *)
(* caller and leaves every other caller's Call State, Conversation Memory  *)
(* and response-tracking entries as they were; and what a request does to  *)
(* its own caller is what it does when the other callers' entries are not  *)
(* there at all.                                                           *)
(***************************************************************************)
\* the response ids that create_interruptible_response can give caller b
IdsOf(b) == {b \o "_" \o ToString(t) : t \in 0..MaxClock}

\* dict d without the entries of the callers other than a
Only(d, a) == [x \in DOMAIN d \cap {a} |-> d[x]]

\* all that the program holds for caller b
EntriesOf(b, contexts, states, active, interrupted, running) ==
    [ memory |-> GetState(contexts, b),
      call_state |-> GetState(states, b),
      active |-> GetState(active, b),
      interrupted |-> interrupted \cap IdsOf(b),
      deliveries |-> {d \in Deliveries : running[d].caller_id = b},
      running |-> [d \in {x \in Deliveries : running[x].caller_id = b} |-> running[d]] ]

\* the request just served, served again with caller a alone in the dicts
ServedAlone(a) ==
    IF request'.route = "/process_voice"
    THEN {process_voice(a, request'.form, Only(conversation_contexts, a),
                        Only(call_states, a), Only(active_responses, a),
                        interrupted_responses \cap IdsOf(a), client, completion) :
              completion \in CapCompletions}
    ELSE {detect_interruption(a, request'.form, Only(conversation_contexts, a),
                              Only(call_states, a), Only(active_responses, a),
                              interrupted_responses \cap IdsOf(a))}

CallersIndependent ==
    [][/\ \E a \in PairCallers : \A b \in PairCallers \ {a} :
              EntriesOf(b, conversation_contexts', call_states', active_responses',
                        interrupted_responses', deliveries')
                  = EntriesOf(b, conversation_contexts, call_states, active_responses,
                              interrupted_responses, deliveries)
       /\ RequestStep =>
              \E alone \in ServedAlone(request'.caller_id) :
                  /\ response' = alone.response
                  /\ GetState(conversation_contexts', request'.caller_id)
                         = GetState(alone.conversation_contexts, request'.caller_id)
                  /\ GetState(call_states', request'.caller_id)
                         = GetState(alone.call_states, request'.caller_id)
                  /\ interrupted_responses' \cap IdsOf(request'.caller_id)
                         = alone.interrupted_responses
    ]_vars

\* a request of one caller served while the other, in mid-conversation, has a
\* delivery between its test and its chunk
CallersIndependentWitness ==
    /\ request.route = "/process_voice"
    /\ IsAccepted(request.form)
    /\ request.caller_id \in DOMAIN call_states
    /\ call_states[request.caller_id].interaction_count > 0
    /\ \E b \in PairCallers \ {request.caller_id} :
          /\ b \in DOMAIN call_states
          /\ call_states[b].is_bot_speaking
          /\ Len(conversation_contexts[b]) > 1
          /\ \E d \in Deliveries : deliveries[d].caller_id = b /\ deliveries[d].pc = "say"

(***************************************************************************)
(* C17.  The branch /process_voice takes for an utterance is the one that  *)
(* first-match-wins selects over its features, in the order: empty (low    *)
(* confidence, or text empty or too short), goodbye phrase, strong         *)
(* interrupt phrase, question word, topic-change phrase, otherwise         *)
(* ordinary.  A question and an ordinary utterance both end in the         *)
(* generation path, which is one branch here.                              *)
(***************************************************************************)
ReferenceBranch(form) ==
    LET text == Strip(Lower(Speech(form)))
    IN  IF \/ float(form.Confidence).value < ConfidenceThreshold
           \/ Len(Speech(form)) < MinPromptLen
        THEN "empty"
        ELSE IF AnyIn(end_phrases, Lower(Speech(form))) THEN "goodbye"
        ELSE IF AnyIn(strong_interrupts, text) THEN "strong_interrupt"
        ELSE IF AnyIn(question_interrupts, text) THEN "generate"
        ELSE IF AnyIn(topic_change, text) THEN "topic_change"
        ELSE "generate"

BranchTaken(body) ==
    IF body \in {<<Gather(RepeatText), Say(ThanksText)>>,
                 <<Say(ConnectionProblemText), Hangup>>}
    THEN "empty"
    ELSE IF body = <<Say(ClosingText), Hangup>> THEN "goodbye"
    ELSE IF Spoken(body) = GoAheadText THEN "strong_interrupt"
    ELSE IF Spoken(body) = NewQuestionText THEN "topic_change"
    ELSE "generate"

BranchFollowsPrecedence ==
    (request.route = "/process_voice" /\ ~float(request.form.Confidence).raises) =>
        BranchTaken(response) = ReferenceBranch(request.form)

(***************************************************************************)
(* C19.  Turns of one caller are processed atomically: when /process_voice *)
(* requests of the same caller overlap in time, the Call State and the     *)
(* Conversation Memory they leave are those of serving the same requests   *)
(* one after the other in some order.                                      *)
(***************************************************************************)
\* the dicts after the requests of the threads ts, served whole one after the
\* other in every order, from the dicts of s
RECURSIVE SerialOutcomes(_, _)
SerialOutcomes(s, ts) ==
    IF ts = {} THEN {s}
    ELSE UNION { UNION { SerialOutcomes(
                     [conversation_contexts |-> served.conversation_contexts,
                      call_states |-> served.call_states], ts \ {t}) :
                     served \in {process_voice(threads[t].caller_id, threads[t].form,
                                     s.conversation_contexts, s.call_states,
                                     active_responses, interrupted_responses, client,
                                     completion) : completion \in CapCompletions} } :
                 t \in ts }

OverlapEqualsSomeSerialOrder ==
    (\A t \in Threads : threads[t].pc = "done") =>
        [conversation_contexts |-> conversation_contexts, call_states |-> call_states]
            \in SerialOutcomes(overlap_start[1], Threads)

(***************************************************************************)
(* C22.  After any sequence of /voice, /process_voice and                  *)
(* /detect_interruption requests alone, every Call State has the speaking  *)
(* flag false, no current response id and an interruption count of 0: the  *)
(* interruption branch of process_voice cannot be reached through the      *)
(* call-handling routes.                                                   *)
(***************************************************************************)
NeverSpeakingThroughCalls ==
    /\ \A c \in DOMAIN call_states :
          /\ ~call_states[c].is_bot_speaking
          /\ call_states[c].current_response_id = None
          /\ call_states[c].interruption_count = 0
          /\ ~call_states[c].mid_response_interrupted
          /\ call_states[c].interruption_buffer = << >>
    /\ interrupted_responses = {}
    /\ \A i \in 1..Len(log) : log[i] \notin {"INTERRUPTION DETECTED", "REAL-TIME INTERRUPTION"}

\* a caller in mid-conversation speaks a strong interrupt, to /process_voice or
\* to /detect_interruption
NeverSpeakingThroughCallsWitness ==
    /\ request.route \in {"/process_voice", "/detect_interruption"}
    /\ entry_call_state # << >>
    /\ request.caller_id \in DOMAIN call_states
    /\ call_states[request.caller_id].interaction_count > 0
    /\ \/ /\ request.route = "/process_voice"
          /\ IsAccepted(request.form)
          /\ Intent(Speech(request.form), << >>) = "strong_interrupt"
          /\ Spoken(response) = GoAheadText
       \/ /\ request.route = "/detect_interruption"
          /\ Intent(request.form.PartialSpeechResult, << >>) = "strong_interrupt"

(***************************************************************************)
(* C21.  For every caller with a Call State: while a delivery by           *)
(* create_interruptible_response is in progress for the caller, the        *)
(* speaking flag is true and current_response_id and the caller's entry in *)
(* active_responses name a response in delivery, so that an                *)
(* interrupt_response call marks a delivery in progress, also when         *)
(* deliveries for one caller overlap; while none is in progress, the flag  *)
(* is false, the id is unset and the ResponseManager holds no active and   *)
(* no interrupted entry of the caller.                                     *)
(***************************************************************************)
\* the deliveries in progress for caller c
InDelivery(c) == {d \in Deliveries : deliveries[d].pc # "idle" /\ deliveries[d].caller_id = c}

SpeakingExactlyWhileDelivering ==
    \A c \in DOMAIN call_states :
        IF InDelivery(c) # {}
        THEN /\ call_states[c].is_bot_speaking
             /\ \E d \in InDelivery(c) :
                   /\ call_states[c].current_response_id = deliveries[d].response_id
                   /\ c \in DOMAIN active_responses
                   /\ active_responses[c] = deliveries[d].response_id
                   /\ interrupt_response(c, active_responses, interrupted_responses)
                          = interrupted_responses \cup {deliveries[d].response_id}
        ELSE /\ ~call_states[c].is_bot_speaking
             /\ call_states[c].current_response_id = None
             /\ c \notin DOMAIN active_responses
             /\ interrupted_responses \cap IdsOf(c) = {}

====
